---- MODULE Spec2Model ----
(***************************************************************************)
(* Model of src/summary.py: the interviewer duration and performance       *)
(* pipeline.  One uploaded CSV table is loaded, its timestamps parsed,     *)
(* unparseable rows dropped, the DK/RF/NA codes counted per row, the table *)
(* reshaped to one row per (respondent, interviewer role), aggregated per  *)
(* interviewer id, sorted, formatted, shown and exported.                  *)
(*                                                                         *)
(* A cell of a data frame is a tagged value                                *)
(*     [tag, s, v]   tag \in {"nan", "str", "int", "float", "ts"}          *)
(* "nan" is pandas' missing value (NaN / NaT), "str" a Python string s,    *)
(* "int" an integer v, "float" the float of integral value v, "ts" a       *)
(* timestamp of v seconds since the epoch.                                 *)
(***************************************************************************)
EXTENDS Integers, Sequences, FiniteSets, TLC

VARIABLES
    pc,                     \* position in the script
    upload,                 \* the uploaded file: [columns, rows] of text
    columns,                \* df.columns, in order
    dtypes,                 \* dtype of every loaded column of df
    df,                     \* the rows of df: [idx, c], c a function column -> cell
    interviewer_name_cols,
    interviewer_id_cols,
    question_cols,
    duration_check,         \* the table shown first: [columns, rows]
    pairs,                  \* (name_col, id_col) of every role the reshape kept
    long_df,                \* rows of long_df
    final_columns,          \* final_df.columns, in order
    final_df,               \* rows of final_df
    shown,                  \* the summary table shown: [columns, rows]
    sheet,                  \* the sheet "Interviewer Stats": [columns, rows]
    summary_text            \* the text under the download button

vars == <<pc, upload, columns, dtypes, df, interviewer_name_cols, interviewer_id_cols,
          question_cols, duration_check, pairs, long_df, final_columns,
          final_df, shown, sheet, summary_text>>

(***************************************************************************)
(* Bounds of the model.                                                    *)
(***************************************************************************)
MaxRows == 2        \* rows of an uploaded table
MaxQ == 2           \* question columns of a table whose cells vary freely
MaxAnswered == 4    \* question columns of a table whose rows answer a prefix

(***************************************************************************)
(* Sequences and strings.                                                  *)
(***************************************************************************)
Range(q) == {q[i] : i \in 1..Len(q)}

RECURSIVE SumSeq(_)
SumSeq(q) == IF q = <<>> THEN 0 ELSE Head(q) + SumSeq(Tail(q))

RECURSIVE MinSeq(_)
MinSeq(q) ==
    IF Len(q) = 1 THEN q[1]
    ELSE LET m == MinSeq(Tail(q)) IN IF q[1] <= m THEN q[1] ELSE m

RECURSIVE MaxSeq(_)
MaxSeq(q) ==
    IF Len(q) = 1 THEN q[1]
    ELSE LET m == MaxSeq(Tail(q)) IN IF q[1] >= m THEN q[1] ELSE m

CharAt(s, i) == SubSeq(s, i, i)

startswith(s, p) == Len(p) <= Len(s) /\ SubSeq(s, 1, Len(p)) = p

endswith(s, p) == Len(p) <= Len(s) /\ SubSeq(s, Len(s) - Len(p) + 1, Len(s)) = p

Whitespace == {" ", "\t", "\n", "\r"}

RECURSIVE lstrip(_)
lstrip(s) ==
    IF Len(s) > 0 /\ CharAt(s, 1) \in Whitespace
    THEN lstrip(SubSeq(s, 2, Len(s))) ELSE s

RECURSIVE rstrip(_)
rstrip(s) ==
    IF Len(s) > 0 /\ CharAt(s, Len(s)) \in Whitespace
    THEN rstrip(SubSeq(s, 1, Len(s) - 1)) ELSE s

strip(s) == rstrip(lstrip(s))

\* str.replace(old, ""): every occurrence of old removed, left to right.
RECURSIVE remove(_, _)
remove(s, old) ==
    IF Len(s) = 0 THEN s
    ELSE IF startswith(s, old) THEN remove(SubSeq(s, Len(old) + 1, Len(s)), old)
    ELSE CharAt(s, 1) \o remove(SubSeq(s, 2, Len(s)), old)

DigitChars == "0123456789"

IsDigit(ch) == \E d \in 1..10 : CharAt(DigitChars, d) = ch

DigitVal(ch) == (CHOOSE d \in 1..10 : CharAt(DigitChars, d) = ch) - 1

AllDigits(s) == Len(s) > 0 /\ \A i \in 1..Len(s) : IsDigit(CharAt(s, i))

RECURSIVE NatOfText(_)
NatOfText(s) ==
    IF Len(s) = 0 THEN 0
    ELSE 10 * NatOfText(SubSeq(s, 1, Len(s) - 1)) + DigitVal(CharAt(s, Len(s)))

RECURSIVE NatToText(_)
NatToText(n) ==
    IF n < 10 THEN CharAt(DigitChars, n + 1)
    ELSE NatToText(n \div 10) \o CharAt(DigitChars, (n % 10) + 1)

\* str(n) of a Python int.
IntToText(n) == IF n < 0 THEN "-" \o NatToText(-n) ELSE NatToText(n)

\* An integer literal as the CSV reader and pd.to_numeric accept it.
IsIntText(s) ==
    \/ AllDigits(s)
    \/ Len(s) > 1 /\ CharAt(s, 1) = "-" /\ AllDigits(SubSeq(s, 2, Len(s)))

IntOfText(s) ==
    IF CharAt(s, 1) = "-" THEN -NatOfText(SubSeq(s, 2, Len(s))) ELSE NatOfText(s)

(***************************************************************************)
(* Cells.                                                                  *)
(***************************************************************************)
NaN == [tag |-> "nan", s |-> "", v |-> 0]
Str(s) == [tag |-> "str", s |-> s, v |-> 0]
Int64(n) == [tag |-> "int", s |-> "", v |-> n]
Float64(n) == [tag |-> "float", s |-> "", v |-> n]
Timestamp(n) == [tag |-> "ts", s |-> "", v |-> n]

isna(val) == val.tag = "nan"

IsNumber(val) == val.tag \in {"int", "float"}

\* str(val) of a non-missing cell: a float of integral value prints with ".0".
str(val) ==
    CASE val.tag = "str" -> val.s
      [] val.tag = "int" -> IntToText(val.v)
      [] val.tag = "float" -> IntToText(val.v) \o ".0"
      [] OTHER -> "nan"

\* The values of an array built from columns of the dtypes dts: numpy takes
\* their common dtype.  int64 columns alone stay ints, an int among float64
\* columns becomes a float, and next to an object column every value keeps
\* its own type.
Upcast(val, dts) ==
    IF val.tag = "int" /\ dts \subseteq {"int64", "float64"} /\ "float64" \in dts
    THEN Float64(val.v) ELSE val

(***************************************************************************)
(* pd.read_csv (line 16).  Every field of the file is text.  A field that  *)
(* is one of the reader's NA strings loads as NaN.  A column whose other   *)
(* fields are all integer literals (blanks around them allowed) loads as   *)
(* int64, or as float64 when it holds a NaN; any other column loads as     *)
(* object and keeps its fields as strings.  Decimal literals are outside   *)
(* the inputs of the model.                                                *)
(***************************************************************************)
NAValues == {"", "NA", "N/A", "NaN", "nan", "NULL", "null", "None", "n/a", "<NA>"}

IsNumericColumn(texts) ==
    \A t \in texts : t \in NAValues \/ IsIntText(strip(t))

read_csv_cell(text, texts) ==
    IF text \in NAValues THEN NaN
    ELSE IF IsNumericColumn(texts)
    THEN IF \E t \in texts : t \in NAValues
         THEN Float64(IntOfText(strip(text)))
         ELSE Int64(IntOfText(strip(text)))
    ELSE Str(text)

read_csv_dtype(texts) ==
    IF texts = {} \/ ~IsNumericColumn(texts) THEN "object"
    ELSE IF \E t \in texts : t \in NAValues THEN "float64" ELSE "int64"

ColumnTexts(file, c) == {file.rows[i][c] : i \in 1..Len(file.rows)}

read_csv(file) ==
    [i \in 1..Len(file.rows) |->
        [idx |-> i,
         c |-> [c \in Range(file.columns) |->
                  read_csv_cell(file.rows[i][c], ColumnTexts(file, c))]]]

read_csv_dtypes(file) ==
    [c \in Range(file.columns) |-> read_csv_dtype(ColumnTexts(file, c))]

(***************************************************************************)
(* pd.to_datetime(..., errors="coerce", utc=True) (lines 23-24).  The      *)
(* texts the model parses are "YYYY-MM-DD" + ("T" or " ") + "HH:MM:SS"     *)
(* with an optional "Z"; any other text, and NaN, give NaT.  A number is   *)
(* nanoseconds since the epoch (kept to whole seconds).                    *)
(***************************************************************************)
IsLeap(y) == (y % 4 = 0 /\ y % 100 # 0) \/ y % 400 = 0

DaysInMonth(y, m) ==
    IF m = 2 THEN (IF IsLeap(y) THEN 29 ELSE 28)
    ELSE IF m \in {4, 6, 9, 11} THEN 30 ELSE 31

\* Days from 1970-01-01 to the civil date y-m-d.
DaysFromCivil(y, m, d) ==
    LET yy == IF m <= 2 THEN y - 1 ELSE y
        era == yy \div 400
        yoe == yy - era * 400
        mp == IF m > 2 THEN m - 3 ELSE m + 9
        doy == (153 * mp + 2) \div 5 + d - 1
        doe == yoe * 365 + yoe \div 4 - yoe \div 100 + doy
    IN  era * 146097 + doe - 719468

IsDateTimeText(s) ==
    /\ Len(s) \in {19, 20}
    /\ Len(s) = 20 => CharAt(s, 20) = "Z"
    /\ \A i \in {1, 2, 3, 4, 6, 7, 9, 10, 12, 13, 15, 16, 18, 19} :
           IsDigit(CharAt(s, i))
    /\ CharAt(s, 5) = "-" /\ CharAt(s, 8) = "-"
    /\ CharAt(s, 11) \in {"T", " "}
    /\ CharAt(s, 14) = ":" /\ CharAt(s, 17) = ":"
    /\ LET y == NatOfText(SubSeq(s, 1, 4))
           m == NatOfText(SubSeq(s, 6, 7))
           d == NatOfText(SubSeq(s, 9, 10))
       IN  /\ y >= 1970 /\ m \in 1..12 /\ d \in 1..DaysInMonth(y, m)
           /\ NatOfText(SubSeq(s, 12, 13)) < 24
           /\ NatOfText(SubSeq(s, 15, 16)) < 60
           /\ NatOfText(SubSeq(s, 18, 19)) < 60

EpochSeconds(s) ==
    DaysFromCivil(NatOfText(SubSeq(s, 1, 4)), NatOfText(SubSeq(s, 6, 7)),
                  NatOfText(SubSeq(s, 9, 10))) * 86400
    + NatOfText(SubSeq(s, 12, 13)) * 3600
    + NatOfText(SubSeq(s, 15, 16)) * 60
    + NatOfText(SubSeq(s, 18, 19))

to_datetime(val) ==
    CASE val.tag = "str" ->
            IF IsDateTimeText(strip(val.s))
            THEN Timestamp(EpochSeconds(strip(val.s))) ELSE NaN
      [] val.tag \in {"int", "float"} -> Timestamp(val.v \div 1000000000)
      [] OTHER -> NaN

(***************************************************************************)
(* The uploaded tables of the model.  A family is a column layout and the  *)
(* set of rows a table of it draws from; the ID of a row is its position.  *)
(***************************************************************************)
RECURSIVE RowsOver(_, _)
RowsOver(cols, dom) ==
    IF cols = <<>> THEN {<<>>}
    ELSE {(Head(cols) :> t) @@ r : t \in dom[Head(cols)], r \in RowsOver(Tail(cols), dom)}

QName(j) == "Q" \o NatToText(j)

QNames(k) == [j \in 1..k |-> QName(j)]

BaseCols == <<"ID", "StartTime_TS", "EndTime_TS">>

T0 == "2024-01-01T10:00:00Z"
T1 == "2024-01-01T10:29:45Z"

BaseDom == [ID |-> {""}, StartTime_TS |-> {T0}, EndTime_TS |-> {T1}]

Family(cols, dom) == [columns |-> cols, rowset |-> RowsOver(cols, dom)]

\* Timestamps vary: parseable, empty, not a date, end before start.
DurationFamily ==
    Family(BaseCols \o <<"FIntID_W4", "FIntName_W4", "Q1">>,
           [ID |-> {""},
            StartTime_TS |-> {T0, "2024-01-01 10:00:30", ""},
            EndTime_TS |-> {T1, "2024-01-01T09:58:30Z", "not a date"},
            FIntID_W4 |-> {"7"}, FIntName_W4 |-> {"Ann"}, Q1 |-> {"1"}])

\* Question cells vary: codes as text and as numbers, blanks, other values.
QuestionDom(j) ==
    IF j = 1 THEN {"197", "199", " "}
    ELSE IF j = 2 THEN {"198", "97", ""}
    ELSE {"1997"}

ClassifyFamilies ==
    {Family(BaseCols \o <<"FIntID_W4", "FIntName_W4">> \o QNames(k),
            BaseDom @@ [FIntID_W4 |-> {"7"}, FIntName_W4 |-> {"Ann"}]
                    @@ [c \in Range(QNames(k)) |->
                          QuestionDom(CHOOSE j \in 1..k : QName(j) = c)])
       : k \in 0..MaxQ}

\* Interviewer ids vary over two roles: numbers, a non-number, missing.
SortFamily ==
    Family(BaseCols \o <<"FIntID_W4", "FIntName_W4", "MIntID_W4", "MIntName_W4", "Q1">>,
           BaseDom @@ [FIntID_W4 |-> {"9", "10", "A7"}, FIntName_W4 |-> {"Ann"},
                       MIntID_W4 |-> {"3", "10", ""}, MIntName_W4 |-> {"Bob"},
                       Q1 |-> {"1"}])

\* Interviewer names vary, missing ones included, over two roles.
NameFamily ==
    Family(BaseCols \o <<"FIntID_W4", "FIntName_W4", "MIntID_W4", "MIntName_W4", "Q1">>,
           BaseDom @@ [FIntID_W4 |-> {"1", "2"}, FIntName_W4 |-> {"Ann", ""},
                       MIntID_W4 |-> {"1"}, MIntName_W4 |-> {"Bob", ""},
                       Q1 |-> {"1"}])

\* The number of questions a respondent answered varies: a row answers the
\* first k of the question columns.
AnsweredFamily ==
    LET cols == BaseCols \o <<"FIntID_W4", "FIntName_W4">> \o QNames(MaxAnswered)
    IN  [columns |-> cols,
         rowset |->
            {[ID |-> "", StartTime_TS |-> T0, EndTime_TS |-> T1,
              FIntID_W4 |-> "1", FIntName_W4 |-> "Ann"]
             @@ [c \in Range(QNames(MaxAnswered)) |->
                   IF \E j \in 1..k : QName(j) = c THEN "1" ELSE ""]
               : k \in 0..MaxAnswered}]

\* Column layouts vary: roles with and without an id column, id columns of
\* longer prefixes, no interviewer column at all.
Layouts ==
    {<<"Q1">>,
     <<"CHIntID_W4", "CIntName_W4", "Q1">>,
     <<"CHIntID_W4", "CIntID_W4", "CIntName_W4", "CHIntName_W4", "Q1">>,
     <<"CIntID_W4", "CHIntID_W4", "CIntName_W4", "Q1">>,
     <<"FIntName_W4", "MIntID_W4", "MIntName_W4", "Q1">>,
     <<"FIntID_W4", "FIntName_W4", "MIntID_W4", "MIntName_W4", "HHIntID_W4",
       "HHIntName_W4", "ORGHHIntID_W4", "ORGHHIntName_W4", "CIntID_W4",
       "CIntName_W4", "Q1">>,
     <<"XIntID_W4", "XIntName_W4", "FIntName_W4", "FIntID_W4">>,
     <<"HHIntName_W4", "ORGHHIntID_W4", "Q1">>}

LayoutDom(c) ==
    IF c = "StartTime_TS" THEN {T0, "2024-13-01T10:00:00Z"}
    ELSE IF c = "EndTime_TS" THEN {T1}
    ELSE IF c = "Q1" THEN {"197"}
    ELSE IF c = "CHIntID_W4" THEN {"8"}
    ELSE IF c = "MIntID_W4" THEN {"4", ""}
    ELSE IF endswith(c, "IntID_W4") THEN {"4"}
    ELSE IF endswith(c, "IntName_W4") THEN {"Ann"}
    ELSE {""}

LayoutFamilies ==
    {Family(BaseCols \o l, [c \in Range(BaseCols \o l) |-> LayoutDom(c)]) : l \in Layouts}

Families ==
    {DurationFamily, SortFamily, NameFamily, AnsweredFamily}
    \cup ClassifyFamilies \cup LayoutFamilies

RowId(i) == "r" \o NatToText(i)

Init ==
    /\ \E f \in Families : \E n \in 0..MaxRows : \E rs \in [1..n -> f.rowset] :
          upload = [columns |-> f.columns,
                    rows |-> [i \in 1..n |-> [rs[i] EXCEPT !["ID"] = RowId(i)]]]
    /\ pc = "load"
    /\ columns = <<>>
    /\ dtypes = <<>>
    /\ df = <<>>
    /\ interviewer_name_cols = <<>>
    /\ interviewer_id_cols = <<>>
    /\ question_cols = <<>>
    /\ duration_check = [columns |-> <<>>, rows |-> <<>>]
    /\ pairs = <<>>
    /\ long_df = <<>>
    /\ final_columns = <<>>
    /\ final_df = <<>>
    /\ shown = [columns |-> <<>>, rows |-> <<>>]
    /\ sheet = [columns |-> <<>>, rows |-> <<>>]
    /\ summary_text = ""

(***************************************************************************)
(* Data frame helpers.                                                     *)
(***************************************************************************)
\* df[name] = value for every row: an existing column is overwritten, a new
\* one is appended to df.columns.
AddColumns(cols, new) ==
    cols \o SelectSeq(new, LAMBDA c : c \notin Range(cols))

SetCells(row, cells) == [row EXCEPT !.c = cells @@ @]

dropna(rows, subset) ==
    SelectSeq(rows, LAMBDA r : \A c \in subset : ~isna(r.c[c]))

\* Faulty variant of astype_int: floor instead of truncation toward zero.
astype_int_floor(n, d) == n \div d

\* float(n / d).astype(int): the fraction is discarded, toward zero.
astype_int(n, d) ==
    IF n >= 0 THEN n \div d ELSE -((-n) \div d)

total_seconds(end, start) == end.v - start.v

duration_minutes(row) ==
    Int64(astype_int(total_seconds(row.c["End_dt"], row.c["Start_dt"]), 60))

(***************************************************************************)
(* Lines 15-18: the upload is read into df.  The uploads of the model are   *)
(* CSV files (line 16); a workbook (line 18) is outside its inputs.         *)
(***************************************************************************)
ReadTable ==
    /\ pc = "load"
    /\ df' = read_csv(upload)
    /\ dtypes' = read_csv_dtypes(upload)
    /\ columns' = upload.columns
    /\ pc' = "time"
    /\ UNCHANGED <<upload, interviewer_name_cols, interviewer_id_cols,
                   question_cols, duration_check, pairs, long_df,
                   final_columns, final_df, shown, sheet, summary_text>>

(***************************************************************************)
(* Lines 23-32: timestamps are parsed, rows with an unparseable one are    *)
(* dropped, and the duration columns are added.                            *)
(***************************************************************************)

\* Faulty variant of DropSubset: the end timestamp is not looked at.
DropSubset_StartOnly == {"Start_dt"}

DropSubset == {"Start_dt", "End_dt"}

TimeConversion ==
    /\ pc = "time"
    /\ IF {"StartTime_TS", "EndTime_TS"} \subseteq Range(columns)
       THEN LET parsed == [i \in 1..Len(df) |->
                             SetCells(df[i],
                                [Start_dt |-> to_datetime(df[i].c["StartTime_TS"]),
                                 End_dt |-> to_datetime(df[i].c["EndTime_TS"])])]
                kept == dropna(parsed, DropSubset)
                timed == [i \in 1..Len(kept) |->
                            SetCells(kept[i],
                               [duration_minutes |-> duration_minutes(kept[i])])]
            IN  /\ df' = [i \in 1..Len(timed) |->
                            SetCells(timed[i],
                               [duration_display |->
                                  Str(str(timed[i].c["duration_minutes"]) \o " min")])]
                /\ columns' = AddColumns(columns,
                      <<"Start_dt", "End_dt", "duration_minutes", "duration_display">>)
                /\ pc' = "schema"
       ELSE \* KeyError
            /\ pc' = "crashed"
            /\ UNCHANGED <<df, columns>>
    /\ UNCHANGED <<upload, dtypes, interviewer_name_cols, interviewer_id_cols,
                   question_cols, duration_check, pairs, long_df,
                   final_columns, final_df, shown, sheet, summary_text>>

(***************************************************************************)
(* Lines 37-61: the interviewer name and id columns are found by name, and *)
(* the duration check table is shown.                                      *)
(***************************************************************************)
prefixes == <<"F", "M", "HH", "ORGHH", "C">>

HasPrefix(c) == \E i \in 1..Len(prefixes) : startswith(c, prefixes[i])

NameColumns(cols) ==
    SelectSeq(cols, LAMBDA c : HasPrefix(c) /\ endswith(c, "IntName_W4"))

IdColumns(cols) ==
    SelectSeq(cols, LAMBDA c : HasPrefix(c) /\ endswith(c, "IntID_W4"))

Project(rows, cols) ==
    [i \in 1..Len(rows) |->
        [idx |-> rows[i].idx, c |-> [c \in Range(cols) |-> rows[i].c[c]]]]

IdentifyInterviewerColumns ==
    /\ pc = "schema"
    /\ interviewer_name_cols' = NameColumns(columns)
    /\ interviewer_id_cols' = IdColumns(columns)
    /\ LET display_cols == <<"ID">> \o IdColumns(columns) \o NameColumns(columns)
                           \o <<"Start_dt", "End_dt", "duration_minutes">>
       IN  IF "ID" \in Range(columns)
           THEN /\ duration_check' = [columns |-> display_cols,
                                      rows |-> Project(df, display_cols)]
                /\ pc' = "questions"
           ELSE \* KeyError
                /\ pc' = "crashed"
                /\ UNCHANGED duration_check
    /\ UNCHANGED <<upload, columns, dtypes, df, question_cols, pairs, long_df,
                   final_columns, final_df, shown, sheet, summary_text>>

(***************************************************************************)
(* Lines 66-76: every other column is a question column; its blank cells   *)
(* become NaN.  Up to pandas 2 the replace turns an object column left     *)
(* without any string into float64, from pandas 3 on it stays object: the  *)
(* model allows both.                                                      *)
(***************************************************************************)
QuestionColumns(cols, name_cols, id_cols) ==
    LET exclude_cols == <<"ID", "StartTime_TS", "EndTime_TS", "Start_dt", "End_dt",
                          "duration_minutes", "duration_display">>
                        \o name_cols \o id_cols
    IN  SelectSeq(cols, LAMBDA c : c \notin Range(exclude_cols))

\* The regular expression ^\s*$ matches a string of whitespace only.
IsBlank(s) == \A i \in 1..Len(s) : CharAt(s, i) \in Whitespace

replace_blank(val) ==
    IF val.tag = "str" /\ IsBlank(val.s) THEN NaN ELSE val

IdentifyQuestionColumns ==
    /\ pc = "questions"
    /\ LET qs == QuestionColumns(columns, interviewer_name_cols, interviewer_id_cols)
           replaced == [i \in 1..Len(df) |->
                          SetCells(df[i],
                             [c \in Range(qs) |-> replace_blank(df[i].c[c])])]
           emptied == {c \in Range(qs) :
                         /\ dtypes[c] = "object"
                         /\ Len(df) > 0
                         /\ \A i \in 1..Len(replaced) : replaced[i].c[c].tag # "str"}
       IN  /\ question_cols' = qs
           /\ df' = replaced
           /\ \E converted \in SUBSET emptied :
                 dtypes' = [c \in DOMAIN dtypes |->
                              IF c \in converted THEN "float64" ELSE dtypes[c]]
    /\ pc' = "classify"
    /\ UNCHANGED <<upload, columns, interviewer_name_cols, interviewer_id_cols,
                   duration_check, pairs, long_df, final_columns, final_df,
                   shown, sheet, summary_text>>

(***************************************************************************)
(* Lines 81-109: the DK / RF / NA codes of every row are counted.  The     *)
(* lambda sees a row of df[question_cols] as one array, of the common      *)
(* dtype of the question columns.                                          *)
(***************************************************************************)
is_dk(val) ==
    IF isna(val) THEN FALSE ELSE endswith(strip(str(val)), "97")

is_rf(val) ==
    IF isna(val) THEN FALSE ELSE endswith(strip(str(val)), "99")

\* Faulty variant of is_na: the suffix of is_dk copied.
is_na_as_dk(val) ==
    IF isna(val) THEN FALSE ELSE endswith(strip(str(val)), "97")

is_na(val) ==
    IF isna(val) THEN FALSE ELSE endswith(strip(str(val)), "98")

RowValues(row, qs, dts) ==
    [j \in 1..Len(qs) |-> Upcast(row.c[qs[j]], {dts[c] : c \in Range(qs)})]

\* sum(flag for v in row)
CountTrue(flags) == Cardinality({j \in 1..Len(flags) : flags[j]})

DetectCodes ==
    /\ pc = "classify"
    /\ df' = [i \in 1..Len(df) |->
                LET vals == RowValues(df[i], question_cols, dtypes)
                IN  SetCells(df[i],
                       [DK_count |->
                           Int64(CountTrue([j \in 1..Len(vals) |-> is_dk(vals[j])])),
                        RF_count |->
                           Int64(CountTrue([j \in 1..Len(vals) |-> is_rf(vals[j])])),
                        NA_count |->
                           Int64(CountTrue([j \in 1..Len(vals) |-> is_na(vals[j])]))])]
    /\ columns' = AddColumns(columns, <<"DK_count", "RF_count", "NA_count">>)
    /\ pc' = "reshape"
    /\ UNCHANGED <<upload, dtypes, interviewer_name_cols, interviewer_id_cols,
                   question_cols, duration_check, pairs, long_df, final_columns,
                   final_df, shown, sheet, summary_text>>

(***************************************************************************)
(* Lines 113-139: one long row per (kept role, respondent).  A name column *)
(* is paired with the first id column that starts with its prefix; without *)
(* one the role is skipped.  pd.concat of no table raises ValueError.      *)
(* The field src of a long row is history: the df row and the role it was  *)
(* copied from (concat renumbers the index).                               *)
(***************************************************************************)
None == ""

IdColumnFor(name_col, id_cols) ==
    LET prefix == remove(name_col, "IntName_W4")
        found == SelectSeq(id_cols, LAMBDA c : startswith(c, prefix))
    IN  IF found = <<>> THEN None ELSE Head(found)

RolePairs(name_cols, id_cols) ==
    LET all == [i \in 1..Len(name_cols) |->
                  [name_col |-> name_cols[i],
                   id_col |-> IdColumnFor(name_cols[i], id_cols)]]
    IN  SelectSeq(all, LAMBDA pr : pr.id_col # None)

notna_count(row, qs) == Cardinality({j \in 1..Len(qs) : ~isna(row.c[qs[j]])})

LongRow(k, row, pr, kept, qs, dts) ==
    [idx |-> k,
     src |-> [idx |-> row.idx, name_col |-> pr.name_col],
     IntID |-> Upcast(row.c[pr.id_col], {dts[kept[i].id_col] : i \in 1..Len(kept)}),
     IntName |-> Upcast(row.c[pr.name_col], {dts[kept[i].name_col] : i \in 1..Len(kept)}),
     duration_minutes |-> row.c["duration_minutes"],
     DK_count |-> row.c["DK_count"],
     RF_count |-> row.c["RF_count"],
     NA_count |-> row.c["NA_count"],
     questions_answered |-> Int64(notna_count(row, qs)),
     c |-> [c \in Range(qs) |-> row.c[c]]]

concat(rows, kept, qs, dts) ==
    LET n == Len(rows)
    IN  [k \in 1..(Len(kept) * n) |->
            LongRow(k, rows[((k - 1) % n) + 1], kept[((k - 1) \div n) + 1],
                    kept, qs, dts)]

BuildLongTable ==
    /\ pc = "reshape"
    /\ LET kept == RolePairs(interviewer_name_cols, interviewer_id_cols)
       IN  /\ pairs' = kept
           /\ IF kept = <<>>
              THEN \* ValueError: No objects to concatenate
                   /\ pc' = "crashed"
                   /\ UNCHANGED long_df
              ELSE /\ long_df' = concat(df, kept, question_cols, dtypes)
                   /\ pc' = "aggregate"
    /\ UNCHANGED <<upload, columns, dtypes, df, interviewer_name_cols,
                   interviewer_id_cols, question_cols, duration_check,
                   final_columns, final_df, shown, sheet, summary_text>>

(***************************************************************************)
(* Lines 144-158: groupby("IntID").agg(...).  Rows without an id are left  *)
(* out (dropna), equal numbers are one key whatever their type, and the    *)
(* groups come ordered by key: numbers ascending, then strings.            *)
(***************************************************************************)
\* The characters of the model's texts, in code point order.
Ascii == " -0123456789:ABCDEFGHIJKLMNOPQRSTUVWXYZ_abcdefghijklmnopqrstuvwxyz"

CodePoint(ch) == CHOOSE i \in 1..Len(Ascii) : CharAt(Ascii, i) = ch

RECURSIVE StrLess(_, _)
StrLess(a, b) ==
    IF Len(b) = 0 THEN FALSE
    ELSE IF Len(a) = 0 THEN TRUE
    ELSE IF CharAt(a, 1) = CharAt(b, 1)
    THEN StrLess(SubSeq(a, 2, Len(a)), SubSeq(b, 2, Len(b)))
    ELSE CodePoint(CharAt(a, 1)) < CodePoint(CharAt(b, 1))

SameKey(a, b) ==
    IF IsNumber(a) /\ IsNumber(b) THEN a.v = b.v ELSE a = b

KeyLess(a, b) ==
    IF IsNumber(a) THEN (IF IsNumber(b) THEN a.v < b.v ELSE TRUE)
    ELSE IF IsNumber(b) THEN FALSE
    ELSE StrLess(a.s, b.s)

\* The distinct keys, each as first met.
RECURSIVE Uniques(_)
Uniques(q) ==
    IF q = <<>> THEN <<>>
    ELSE LET rest == Uniques(SubSeq(q, 1, Len(q) - 1))
             last == q[Len(q)]
         IN  IF \E i \in 1..Len(rest) : SameKey(rest[i], last)
             THEN rest ELSE Append(rest, last)

SortKeys(keys) ==
    [j \in 1..Len(keys) |->
        keys[CHOOSE i \in 1..Len(keys) :
                Cardinality({h \in 1..Len(keys) : KeyLess(keys[h], keys[i])}) = j - 1]]

Column(rows, f) == [i \in 1..Len(rows) |-> rows[i][f]]

Values(cells) == [i \in 1..Len(cells) |-> cells[i].v]

\* Faulty variant of first: the first value, null or not.
first_with_null(cells) == IF cells = <<>> THEN NaN ELSE Head(cells)

\* GroupBy.first: the first value that is not null, NaN when there is none.
first(cells) ==
    LET some == SelectSeq(cells, LAMBDA x : ~isna(x))
    IN  IF some = <<>> THEN NaN ELSE Head(some)

\* A float that is not an integer is kept as the fraction num / den.
mean(values) == [num |-> SumSeq(values), den |-> Len(values)]

AggregateGroup(key, rows) ==
    LET g == SelectSeq(rows, LAMBDA r : SameKey(r.IntID, key))
        durations == Values(Column(g, "duration_minutes"))
    IN  [IntID |-> key,
         IntName |-> first(Column(g, "IntName")),
         total_interviews |-> Len(durations),
         avg_duration_minutes |-> mean(durations),
         min_duration_minutes |-> MinSeq(durations),
         max_duration_minutes |-> MaxSeq(durations),
         avg_questions |-> mean(Values(Column(g, "questions_answered"))),
         total_DK |-> SumSeq(Values(Column(g, "DK_count"))),
         total_RF |-> SumSeq(Values(Column(g, "RF_count"))),
         total_NA |-> SumSeq(Values(Column(g, "NA_count")))]

groupby_agg(rows) ==
    LET with_id == SelectSeq(rows, LAMBDA r : ~isna(r.IntID))
        keys == SortKeys(Uniques(Column(with_id, "IntID")))
    IN  [j \in 1..Len(keys) |-> AggregateGroup(keys[j], with_id)]

AggColumns ==
    <<"IntID", "IntName", "total_interviews", "avg_duration_minutes",
      "min_duration_minutes", "max_duration_minutes", "avg_questions",
      "total_DK", "total_RF", "total_NA">>

Aggregate ==
    /\ pc = "aggregate"
    /\ final_df' = groupby_agg(long_df)
    /\ final_columns' = AggColumns
    /\ pc' = "sort"
    /\ UNCHANGED <<upload, columns, dtypes, df, interviewer_name_cols,
                   interviewer_id_cols, question_cols, duration_check, pairs,
                   long_df, shown, sheet, summary_text>>

(***************************************************************************)
(* Lines 163-164: the summary is sorted by the id read as a number.  An id *)
(* that is no number gives NaN and sorts last, in the order it had.  The   *)
(* sort (quicksort) is not stable: rows of equal number may come out in    *)
(* either order.                                                           *)
(***************************************************************************)
\* pd.to_numeric(..., errors="coerce") of one value: a number cell, or NaN.
to_numeric(val) ==
    CASE IsNumber(val) -> val
      [] val.tag = "str" /\ IsIntText(strip(val.s)) -> Int64(IntOfText(strip(val.s)))
      [] OTHER -> NaN

IsSortOrder(p, keys) ==
    \A i, j \in 1..Len(keys) :
        i < j =>
            LET a == keys[p[i]]
                b == keys[p[j]]
            IN  /\ ~isna(a) /\ ~isna(b) => a.v <= b.v
                /\ isna(a) => isna(b) /\ p[i] < p[j]

\* Faulty variant of sort_values: the rows stay in group order.
sort_values_unsorted(rows, keys) == {rows}

sort_values(rows, keys) ==
    {[i \in 1..Len(rows) |-> rows[p[i]]] :
        p \in {q \in Permutations(1..Len(rows)) : IsSortOrder(q, keys)}}

SortByID ==
    /\ pc = "sort"
    /\ LET IntID_sort == [i \in 1..Len(final_df) |-> to_numeric(final_df[i].IntID)]
       IN  final_df' \in sort_values(final_df, IntID_sort)
    /\ pc' = "format"
    /\ UNCHANGED <<upload, columns, dtypes, df, interviewer_name_cols,
                   interviewer_id_cols, question_cols, duration_check, pairs,
                   long_df, final_columns, shown, sheet, summary_text>>

(***************************************************************************)
(* Lines 169-181: display columns are added and the counts made integers.  *)
(* round() rounds an exact half to the even neighbour.                     *)
(***************************************************************************)
Abs(n) == IF n < 0 THEN -n ELSE n

\* The integer nearest to n / d, an exact half going to the even one.
rint(n, d) ==
    LET q == Abs(n) \div d
        r == Abs(n) % d
        m == IF 2 * r < d THEN q
             ELSE IF 2 * r > d THEN q + 1
             ELSE IF q % 2 = 0 THEN q ELSE q + 1
    IN  IF n < 0 THEN -m ELSE m

\* str(x.round(2)) of the float x = num / den.
round2_text(x) ==
    LET h == rint(x.num * 100, x.den)
        f == Abs(h) % 100
    IN  (IF x.num < 0 THEN "-" ELSE "")
        \o NatToText(Abs(h) \div 100) \o "."
        \o (IF f % 10 = 0 THEN NatToText(f \div 10)
            ELSE NatToText(f \div 10) \o NatToText(f % 10))

\* Faulty variant of round0_int: an exact half goes up.
round0_int_half_up(x) == (2 * x.num + x.den) \div (2 * x.den)

round0_int(x) == rint(x.num, x.den)

FormatRow(r) ==
    [avg_duration_display |-> round2_text(r.avg_duration_minutes) \o " min",
     min_duration_display |-> IntToText(r.min_duration_minutes) \o " min",
     max_duration_display |-> IntToText(r.max_duration_minutes) \o " min",
     avg_questions |-> round0_int(r.avg_questions)]
    @@ r

DisplayColumns ==
    <<"avg_duration_display", "min_duration_display", "max_duration_display">>

Formatting ==
    /\ pc = "format"
    /\ final_df' = [i \in 1..Len(final_df) |-> FormatRow(final_df[i])]
    /\ final_columns' = AddColumns(final_columns, DisplayColumns)
    /\ pc' = "show"
    /\ UNCHANGED <<upload, columns, dtypes, df, interviewer_name_cols,
                   interviewer_id_cols, question_cols, duration_check, pairs,
                   long_df, shown, sheet, summary_text>>

(***************************************************************************)
(* Lines 186-221: the summary is shown, final_df is written to the sheet   *)
(* "Interviewer Stats", and the totals are printed.                        *)
(***************************************************************************)
ShownColumns ==
    <<"IntID", "IntName", "total_interviews",
      "min_duration_display", "avg_duration_display", "max_duration_display",
      "avg_questions", "total_DK", "total_RF", "total_NA">>

Select(rows, cols) ==
    [i \in 1..Len(rows) |-> [c \in Range(cols) |-> rows[i][c]]]

\* final_df.to_excel(writer, index=False): every column of final_df.
to_excel(rows, cols) == [columns |-> cols, rows |-> Select(rows, cols)]

OverallAverage ==
    IF df = <<>> THEN "nan"
    ELSE round2_text(mean(Values([i \in 1..Len(df) |-> df[i].c["duration_minutes"]])))

ShowAndExport ==
    /\ pc = "show"
    /\ shown' = [columns |-> ShownColumns, rows |-> Select(final_df, ShownColumns)]
    /\ sheet' = to_excel(final_df, final_columns)
    /\ summary_text' = "Total interviews: " \o NatToText(Len(df))
                       \o " Overall average time: " \o OverallAverage \o " min"
    /\ pc' = "done"
    /\ UNCHANGED <<upload, columns, dtypes, df, interviewer_name_cols,
                   interviewer_id_cols, question_cols, duration_check, pairs,
                   long_df, final_columns, final_df>>

Next ==
    \/ ReadTable
    \/ TimeConversion
    \/ IdentifyInterviewerColumns
    \/ IdentifyQuestionColumns
    \/ DetectCodes
    \/ BuildLongTable
    \/ Aggregate
    \/ SortByID
    \/ Formatting
    \/ ShowAndExport

Spec == Init /\ [][Next]_vars

(***************************************************************************)
(* Properties.  Stages names the positions that follow a given one.        *)
(***************************************************************************)
Stages ==
    <<"load", "time", "schema", "questions", "classify", "reshape",
      "aggregate", "sort", "format", "show", "done">>

StageOf(p) == CHOOSE i \in 1..Len(Stages) : Stages[i] = p

\* The script ran past the step that starts at position p.
Past(p) == pc # "crashed" /\ StageOf(pc) > StageOf(p)

\* The cell of row i, column c of the upload as the reader loads it.
Loaded(i, c) == read_csv_cell(upload.rows[i][c], ColumnTexts(upload, c))

Parseable(i) ==
    /\ ~isna(to_datetime(Loaded(i, "StartTime_TS")))
    /\ ~isna(to_datetime(Loaded(i, "EndTime_TS")))

ParseableRows == {i \in 1..Len(upload.rows) : Parseable(i)}

Indexes(rows) == {rows[k].idx : k \in 1..Len(rows)}

Classified ==
    pc = "crashed" \/ Past("classify")

\* The value of a cell ends in the two digits of code.
EndsInCode(val, code) ==
    CASE val.tag = "str" -> endswith(strip(val.s), IntToText(code))
      [] IsNumber(val) -> Abs(val.v) % 100 = code
      [] OTHER -> FALSE

CodedCells(row, code) ==
    {c \in Range(question_cols) : ~isna(row.c[c]) /\ EndsInCode(row.c[c], code)}

\* C1 (as claimed): every non-missing question cell, text or number, is
\* counted in DK_count exactly when its value ends in 97, in RF_count exactly
\* when it ends in 99, and in NA_count exactly when it ends in 98.
C1_CountsBySuffix ==
    Classified =>
        \A k \in 1..Len(df) :
            /\ df[k].c["DK_count"].v = Cardinality(CodedCells(df[k], 97))
            /\ df[k].c["RF_count"].v = Cardinality(CodedCells(df[k], 99))
            /\ df[k].c["NA_count"].v = Cardinality(CodedCells(df[k], 98))

Elapsed(row) == row.c["End_dt"].v - row.c["Start_dt"].v

RowOf(i) == CHOOSE k \in 1..Len(df) : df[k].idx = i

\* C2: for every retained row duration_minutes is the elapsed seconds
\* divided by 60 with the fraction discarded toward zero, for negative
\* elapsed time too: 29 min 45 s gives 29, and an end 90 s before the start
\* gives -1, the row being kept.
C2_DurationTruncated ==
    (pc = "crashed" \/ Past("time")) =>
        /\ \A k \in 1..Len(df) :
              LET e == Elapsed(df[k])
                  d == df[k].c["duration_minutes"].v
              IN  /\ Abs(e) - 60 * Abs(d) \in 0..59
                  /\ e >= 0 => d >= 0
                  /\ e <= 0 => d <= 0
        /\ \A i \in 1..Len(upload.rows) :
              upload.rows[i]["StartTime_TS"] = T0 =>
                  /\ upload.rows[i]["EndTime_TS"] = T1 =>
                        /\ i \in Indexes(df)
                        /\ df[RowOf(i)].c["duration_minutes"] = Int64(29)
                  /\ upload.rows[i]["EndTime_TS"] = "2024-01-01T09:58:30Z" =>
                        /\ i \in Indexes(df)
                        /\ df[RowOf(i)].c["duration_minutes"] = Int64(-1)

\* C2 witness: a row that ended 90 seconds before it started is in the final
\* table with duration -1, beside a row of 29 min 45 s with duration 29.
C2_Witness ==
    /\ pc = "done"
    /\ \E k \in 1..Len(df) :
          Elapsed(df[k]) = -90 /\ df[k].c["duration_minutes"].v = -1
    /\ \E k \in 1..Len(df) :
          Elapsed(df[k]) = 1785 /\ df[k].c["duration_minutes"].v = 29

\* The (retained row, kept role) pairs whose interviewer id is key.
Interviews(key) ==
    {<<i, j>> \in ParseableRows \X (1..Len(pairs)) :
        SameKey(Loaded(i, pairs[j].id_col), key)}

InterviewsWithId ==
    {<<i, j>> \in ParseableRows \X (1..Len(pairs)) :
        ~isna(Loaded(i, pairs[j].id_col))}

\* C3: a row whose start or end timestamp cannot be parsed is in no later
\* table (duration check, long form, summary counts), and every row with
\* both timestamps parseable is retained.
C3_UnparseableRowsAbsent ==
    LET parseable == ParseableRows
    IN  /\ (pc = "crashed" \/ Past("time")) => Indexes(df) = parseable
        /\ Past("schema") => Indexes(duration_check.rows) = parseable
        /\ Past("reshape") =>
              /\ \A k \in 1..Len(long_df) : long_df[k].src.idx \in parseable
              /\ \A i \in parseable : \A j \in 1..Len(pairs) :
                    \E k \in 1..Len(long_df) :
                        long_df[k].src = [idx |-> i, name_col |-> pairs[j].name_col]
        /\ Past("aggregate") =>
              /\ \A g \in 1..Len(final_df) :
                    final_df[g].total_interviews
                        = Cardinality(Interviews(final_df[g].IntID))
              /\ SumSeq([g \in 1..Len(final_df) |-> final_df[g].total_interviews])
                    = Cardinality(InterviewsWithId)

\* C3 witness: the run ended with a summary, from a table that held a row
\* with an unparseable timestamp and a row with both parseable.
C3_Witness ==
    /\ pc = "done"
    /\ final_df # <<>>
    /\ ParseableRows # {}
    /\ ParseableRows # 1..Len(upload.rows)

RawText(row, c) == upload.rows[row.idx][c]

HasCodeSuffix(text) ==
    \E code \in {"97", "98", "99"} : endswith(strip(text), code)

CodeSum(row) ==
    row.c["DK_count"].v + row.c["RF_count"].v + row.c["NA_count"].v

\* C4: each of the three counts of a row lies between 0 and the number of
\* question columns; no cell is counted twice and a blank cell is counted in
\* none, so the three counts sum to at most the number of non-blank cells
\* that end in a code; the sum reaches the number of question columns only
\* if every question cell is non-missing and ends in a code; without
\* question columns all three are 0.
C4_CountsPartition ==
    Classified =>
        \A k \in 1..Len(df) :
            LET nq == Len(question_cols)
                row == df[k]
                vals == RowValues(row, question_cols, dtypes)
            IN  /\ \A f \in {"DK_count", "RF_count", "NA_count"} : row.c[f].v \in 0..nq
                /\ \A j \in 1..nq :
                      Cardinality({x \in {"dk", "rf", "na"} :
                                      \/ x = "dk" /\ is_dk(vals[j])
                                      \/ x = "rf" /\ is_rf(vals[j])
                                      \/ x = "na" /\ is_na(vals[j])}) <= 1
                /\ CodeSum(row) <= Cardinality({c \in Range(question_cols) :
                                                   /\ ~IsBlank(RawText(row, c))
                                                   /\ HasCodeSuffix(RawText(row, c))})
                /\ CodeSum(row) <= nq
                /\ CodeSum(row) = nq =>
                      \A c \in Range(question_cols) :
                          ~isna(row.c[c]) /\ HasCodeSuffix(RawText(row, c))
                /\ nq = 0 => CodeSum(row) = 0

\* C4 witness: with two question columns, one row has both cells counted and
\* another row has a whitespace-only cell.
C4_Witness ==
    /\ pc = "done"
    /\ Len(question_cols) = 2
    /\ \E k \in 1..Len(df) : CodeSum(df[k]) = 2
    /\ \E k \in 1..Len(df) : \E c \in Range(question_cols) :
          RawText(df[k], c) # "" /\ IsBlank(RawText(df[k], c))

SpecifiedSheetColumns ==
    {"IntID", "IntName", "total_interviews", "min_duration_display",
     "avg_duration_display", "max_duration_display", "avg_questions",
     "total_DK", "total_RF", "total_NA"}

\* C5 (as claimed): the table written to the sheet "Interviewer Stats" has
\* exactly the ten specified columns and no other.
C5_SheetColumns ==
    pc = "done" => Range(sheet.columns) = SpecifiedSheetColumns

ParsesAsNumber(val) ==
    IsNumber(val) \/ (val.tag = "str" /\ IsIntText(strip(val.s)))

NumberOf(val) == IF IsNumber(val) THEN val.v ELSE IntOfText(strip(val.s))

OrderedById(rows) ==
    \A i, j \in 1..Len(rows) :
        i < j =>
            /\ ParsesAsNumber(rows[i].IntID) /\ ParsesAsNumber(rows[j].IntID)
                  => NumberOf(rows[i].IntID) <= NumberOf(rows[j].IntID)
            /\ ParsesAsNumber(rows[j].IntID) => ParsesAsNumber(rows[i].IntID)

\* C6: the summary rows are ordered by the interviewer id read as a number,
\* ascending, and every row whose id is no number comes after every row
\* whose id is one; so it is in the table shown and in the sheet.
C6_SortedByNumericId ==
    /\ Past("sort") => OrderedById(final_df)
    /\ pc = "done" => OrderedById(shown.rows) /\ OrderedById(sheet.rows)

\* C6 witness: a summary of at least three interviewers with id 9 before id
\* 10 and an id that is no number.
C6_Witness ==
    /\ pc = "done"
    /\ Len(final_df) >= 3
    /\ \E i, j, k \in 1..Len(final_df) :
          /\ i < j /\ j < k
          /\ final_df[i].IntID = Str("9")
          /\ ParsesAsNumber(final_df[j].IntID) /\ NumberOf(final_df[j].IntID) = 10
          /\ ~ParsesAsNumber(final_df[k].IntID)

\* The role of a name column has an id column of the identical prefix.
ExactIdColumn(name_col) == remove(name_col, "IntName_W4") \o "IntID_W4"

ZeroGroups ==
    \/ df = <<>>
    \/ \A c \in Range(interviewer_name_cols) : ExactIdColumn(c) \notin Range(columns)
    \/ \A k \in 1..Len(df) : \A c \in Range(interviewer_id_cols) : isna(df[k].c[c])

\* C7 (as claimed): when the input yields no interviewer group, the run
\* completes without an exception and the summary is empty.
C7_EmptySummaryNoCrash ==
    (pc \in {"done", "crashed"} /\ ZeroGroups) =>
        pc = "done" /\ final_df = <<>> /\ sheet.rows = <<>>

\* C8 (as claimed): a name column is paired only with the id column of the
\* identical prefix, and a role without that id column gives no long row.
C8_SamePrefixPairing ==
    (pc = "crashed" \/ Past("reshape")) =>
        /\ \A j \in 1..Len(pairs) : pairs[j].id_col = ExactIdColumn(pairs[j].name_col)
        /\ \A k \in 1..Len(long_df) :
              ExactIdColumn(long_df[k].src.name_col) \in Range(columns)

LongRowsOf(key) == {k \in 1..Len(long_df) : SameKey(long_df[k].IntID, key)}

Least(S) == CHOOSE k \in S : \A h \in S : k <= h

RolePosition(name_col) ==
    CHOOSE i \in 1..Len(interviewer_name_cols) : interviewer_name_cols[i] = name_col

\* Long rows come role by role in name-column order, respondents in order.
LongOrder ==
    \A k, h \in 1..Len(long_df) :
        k < h =>
            LET a == long_df[k].src
                b == long_df[h].src
            IN  \/ RolePosition(a.name_col) < RolePosition(b.name_col)
                \/ a.name_col = b.name_col /\ a.idx < b.idx

\* C9 (as claimed): IntName of an interviewer id is the name of the first
\* long row with that id, also when that name is missing.
C9_FirstRowName ==
    Past("aggregate") =>
        \A g \in 1..Len(final_df) :
            final_df[g].IntName = long_df[Least(LongRowsOf(final_df[g].IntID))].IntName

\* C9 (amended): IntName of an interviewer id is the name of the first long
\* row with that id whose name is not missing, and is missing only when
\* every long row of the id has a missing name; long rows are ordered role
\* by role in name-column order and within a role in respondent order.
C9_FirstNonMissingName ==
    Past("aggregate") =>
        /\ LongOrder
        /\ \A g \in 1..Len(final_df) :
              LET named == {k \in LongRowsOf(final_df[g].IntID) :
                               ~isna(long_df[k].IntName)}
              IN  IF named = {} THEN isna(final_df[g].IntName)
                  ELSE final_df[g].IntName = long_df[Least(named)].IntName

\* C9 witness: the first long row of an interviewer id has no name and the
\* summary carries the name of a later row.
C9_Witness ==
    /\ pc = "done"
    /\ \E g \in 1..Len(final_df) :
          /\ isna(long_df[Least(LongRowsOf(final_df[g].IntID))].IntName)
          /\ ~isna(final_df[g].IntName)

AnsweredSum(key) ==
    SumSeq([k \in 1..Len(long_df) |->
              IF k \in LongRowsOf(key) THEN long_df[k].questions_answered.v ELSE 0])

\* C10 (as claimed): avg_questions is the mean of questions_answered over
\* the interviewer's long rows rounded to the nearest integer, an exact half
\* rounded up.
C10_RoundHalfUp ==
    Past("format") =>
        \A g \in 1..Len(final_df) :
            LET n == Cardinality(LongRowsOf(final_df[g].IntID))
                t == AnsweredSum(final_df[g].IntID)
            IN  final_df[g].avg_questions = (2 * t + n) \div (2 * n)

\* C10 (amended): avg_questions is the mean of questions_answered over the
\* interviewer's long rows rounded to the nearest integer, an exact half
\* rounded to the even neighbour: 2.5 gives 2 and 3.5 gives 4.
C10_RoundHalfEven ==
    Past("format") =>
        \A g \in 1..Len(final_df) :
            LET n == Cardinality(LongRowsOf(final_df[g].IntID))
                t == AnsweredSum(final_df[g].IntID)
                m == final_df[g].avg_questions
            IN  /\ Abs(t - m * n) * 2 <= n
                /\ Abs(t - m * n) * 2 = n => m % 2 = 0
                /\ 2 * t = 5 * n => m = 2
                /\ 2 * t = 7 * n => m = 4

\* C10 witness: an interviewer whose mean of questions answered is exactly
\* 2.5 has avg_questions 2.
C10_Witness ==
    /\ pc = "done"
    /\ \E g \in 1..Len(final_df) :
          /\ 2 * AnsweredSum(final_df[g].IntID)
                = 5 * Cardinality(LongRowsOf(final_df[g].IntID))
          /\ final_df[g].avg_questions = 2

====
